---- MODULE Spec2Model ----
(***************************************************************************)
(* Model of the LED-matrix controller of SE202_rust/tp-led-matrix:         *)
(*   - the RTIC application of src/main.rs (the display task, the          *)
(*     receive_byte interrupt handler, the frame pool and the shared       *)
(*     next_image slot), under RTIC's fixed-priority preemptive scheduling *)
(*     with priority-ceiling locks;                                        *)
(*   - the bit-banged driver of src/matrix.rs at the level of single pin   *)
(*     writes.                                                             *)
(***************************************************************************)
EXTENDS Integers, Sequences, FiniteSets, TLC

(***************************************************************************)
(* Program constants.                                                      *)
(***************************************************************************)
\* const SIZE: usize = 8 * 8 * 3 (main.rs:179); [u8; 192] (image.rs:123)
SIZE == 192
\* static mut MEMORY: MaybeUninit<[Node<Image>; 3]> (main.rs:112)
POOL_CAPACITY == 3
\* if b == 0xff (main.rs:187)
MARKER == 255
\* #[task(..., priority = 2)] fn display (main.rs:142)
PrioDisplay == 2
\* #[task(binds = USART1, ...)] fn receive_byte: no priority argument, RTIC's
\* default priority of a task is 1 (main.rs:173)
PrioReceive == 1
\* next_line wraps at 7 (main.rs:151); an Image has 8 rows of 8 colours
LAST_ROW == 7

(***************************************************************************)
(* Bounds of the model (the sender of the byte stream).                    *)
(***************************************************************************)
\* number of 0xFF markers the sender emits in one run
MaxMarkers == 2
\* number of non-marker bytes the sender emits between two markers
MaxRun == 193
\* the sender emits a marker only when fewer than AbortWindow payload bytes
\* were sent since the last marker, or when at most AbortWindow bytes of the
\* SIZE-1 the receiver collects are missing, or later
AbortWindow == 1
\* send_row is called with the rows TestRow(0) .. TestRow(MaxSeed)
MaxSeed == 1

None == 0
Slots == 1 .. POOL_CAPACITY
Offsets == 0 .. (SIZE - 1)

\* Image::default(): new_solid(Color::default()), every channel 0
ImageDefault == [i \in Offsets |-> 0]

Max(a, b) == IF a >= b THEN a ELSE b

VARIABLES
    \* #[shared]
    next_image,     \* Option<Box<Image>>: None or the slot of the published frame
    pool,           \* Pool<Image>: the free list, head first
    \* #[local]
    current_image,  \* Box<Image> of display
    rx_image,       \* Box<Image> of receive_byte
    next_line,      \* display's local next_line
    next_pos,       \* receive_byte's local next_pos
    begin,          \* receive_byte's local begin
    \* the memory of the three pool nodes
    image,
    \* locals of the two critical sections
    contain_image,  \* display: the frame taken from next_image
    future_image,   \* receive_byte: the freshly allocated frame
    \* scheduling
    disp_pc, rx_pc, \* position of each task
    running,        \* stack of started tasks, the running one last
    lock,           \* holder of the (next_image, pool) lock, or "none"
    panicked,       \* an unwrap() or an index check failed
    \* output pins of the matrix (struct Matrix, matrix.rs:7-21)
    sb, lat, rst, sck, sda,
    rowsel,         \* c0..c7
    \* position of the driver inside send_row
    m_pc,           \* "idle" between calls, else the pin write to do next
    m_row,          \* argument row
    m_pixels,       \* argument pixels
    m_i,            \* column index of the loop of matrix.rs:145
    m_ch,           \* channel being sent: 0 blue, 1 green, 2 red
    m_bit,          \* bit index of the loop of matrix.rs:120
    m_next,         \* row of the next call
    events,         \* pin writes of the call in progress, <<pin, level>>
    \* Matrix::new and init_bank0
    outputs,        \* the pins configured as push-pull outputs so far
    elapsed,        \* milliseconds of the delay of matrix.rs:77 gone by
    m_n,            \* pins configured in new, iterations done in init_bank0
    \* Image::gradient (image.rs:78-86)
    g_pc,           \* "idle", "loop" inside the two loops, "done" at the return
    g_color,        \* argument color
    g_row, g_col,   \* the loop variables row and col
    grad,           \* the local grad, index 8 * row + col -> Color
    \* struct Machine (machine.rs:8-11) and a call of run_on
    vm_memory,      \* memory: [u8; MEMORY_SIZE]
    vm_regs,        \* regs: [u32; NREGS], each a pair of 16-bit halves
    vm_pc,          \* "idle", "step" at the call of step_on, "exec" at its
                    \* match, "check" back in run_on, "done" at its return
    vm_ip0,         \* step_on's local instruction_ad
    vm_opcode,      \* step_on's local opcode
    vm_b,           \* step_on's locals b1, b2, b3
    vm_result,      \* what the last step_on returned
    vm_results,     \* what the calls of step_on returned, in order
    vm_run,         \* what run_on returned, "running" before
    vm_out,         \* what was written to fd
    vm_touch,       \* the indices the current step_on call has used on
                    \* memory (mem) and on regs (reg)
    \* the monotonic timer and the timer queue of display (main.rs:39-41,
    \* 120, 167-170)
    now,            \* mono.now(), in ticks of the 80 MHz clock
    timerq,         \* the instants display is scheduled at and not yet started
    d_pc,           \* display: "off", "idle", "body" (main.rs:147-165),
                    \* "spawn" (main.rs:167-170)
    d_at,           \* argument at of the invocation
    d_start,        \* the instant init spawned display at
    d_log,          \* per invocation started: <<row it renders, its at>>
    \* the sender
    tx_frame,       \* markers sent so far
    tx_pattern,     \* pattern of the frame being sent
    \* history
    payload,        \* non-marker bytes handled since the last marker
    mark,           \* how the last marker found the parser: "none" yet, "idle",
                    \* "again" (begin set, nothing collected), "mid" (frame
                    \* partly collected)
    pubs,           \* frames published since the last marker
    pub_slot,       \* slot of the frame published last
    completed,      \* frames published since startup
    frame_id,       \* slot -> ordinal of the published frame it holds (0: none)
    shown,          \* ordinals of the frames swapped into current_image
    discarded,      \* ordinals of the frames freed by receive_byte unconsumed
    recycled,       \* the slot allocated last held a frame when it was taken
                    \* from the pool
    cycle           \* per row sent in this refresh cycle: <<slot sent from,
                    \* ordinal of its frame>>

appvars == <<next_image, pool, current_image, rx_image, next_line, next_pos,
             begin, image, contain_image, future_image, disp_pc, rx_pc,
             running, lock, panicked>>
sysvars == <<appvars, rowsel, sda>>
envvars == <<tx_frame, tx_pattern>>
histvars == <<payload, mark, pubs, pub_slot, completed, frame_id, shown,
              discarded, recycled, cycle>>
newvars == <<outputs, elapsed, m_n>>
gradvars == <<g_pc, g_color, g_row, g_col, grad>>
vmvars == <<vm_memory, vm_regs, vm_pc, vm_ip0, vm_opcode, vm_b, vm_result,
            vm_results, vm_run, vm_out, vm_touch>>
schedvars == <<now, timerq, d_pc, d_at, d_start, d_log>>
libvars == <<gradvars, vmvars, schedvars>>
drivervars == <<sb, lat, rst, sck, m_pc, m_row, m_pixels, m_i, m_ch, m_bit,
                m_next, events, newvars>>
matvars == <<drivervars, libvars>>
vars == <<sysvars, envvars, histvars, matvars>>

(***************************************************************************)
(* The byte stream.  The handler only compares a byte with 0xFF, so the    *)
(* payload of a frame is one of two patterns the sender chooses at the     *)
(* marker: pattern 0 is all zero, pattern n > 0 (n the ordinal of the      *)
(* marker) a ramp whose neighbouring bytes differ and that differs from    *)
(* the ramp of the frame before.  No payload byte is 0xFF.                 *)
(***************************************************************************)
Payload(p, k) == IF p = 0 THEN 0 ELSE 1 + ((50 * p + k) % 254)

MarkerPoint(c) == c < AbortWindow \/ c + AbortWindow >= SIZE - 1

(***************************************************************************)
(* RTIC scheduling: a task starts only when its priority is above the      *)
(* priority the processor runs at, which a held lock raises to the ceiling *)
(* of the locked resources (the highest priority of the tasks sharing it). *)
(***************************************************************************)
\* the two priorities exchanged
Priority_Swapped(t) == IF t = "display" THEN PrioReceive ELSE PrioDisplay

Priority(t) == IF t = "display" THEN PrioDisplay ELSE PrioReceive

Ceiling == Max(PrioDisplay, PrioReceive)

Top == IF running = <<>> THEN "idle" ELSE running[Len(running)]

\* a lock that leaves the priority as it is
Raised_Not(held, p) == p

\* lock(): while the resources are held the processor runs at their ceiling
\* at least; nothing else keeps a task out of the closure
Raised(held, p) == IF held THEN Max(Ceiling, p) ELSE p

SystemPrio ==
    LET p == IF running = <<>> THEN 0 ELSE Priority(Top)
    IN  Raised(lock # "none", p)

CanStart(t) == Priority(t) > SystemPrio

Return == SubSeq(running, 1, Len(running) - 1)

(***************************************************************************)
(* heapless::pool::Pool: a stack of free nodes.                            *)
(***************************************************************************)
PoolFree(p, s) == <<s>> \o p

\* the Option is read and left as it is
Take_Keep(opt) == opt

\* Option::take (main.rs:157, 202): what is left in the Option
Take(opt) == None

\* the unconsumed frame is dropped and never freed
TakeFree_Leak(p, old) == p

\* main.rs:202-204: if let Some(image) = next_image.take() { pool.free(image) }
TakeFree(p, old) == IF old # None THEN PoolFree(p, old) ELSE p

(***************************************************************************)
(* receive_byte, main.rs:176-214.                                          *)
(***************************************************************************)
\* the position is incremented for payload bytes only
Advance_DataOnly(b, pos) == IF b = MARKER THEN 0 ELSE pos + 1

\* a marker does not reset the position
Advance_NoReset(b, pos) == pos + 1

\* main.rs:187-188 and 197: a marker resets the position, then the position
\* is incremented whatever the byte was
Advance(b, pos) == (IF b = MARKER THEN 0 ELSE pos) + 1

\* main.rs:189: begin after the byte
Begun(b, bg) == IF b = MARKER THEN TRUE ELSE bg

\* every byte stored once a frame has begun, the marker too
Stores_Marker(b, bg) == bg

\* main.rs:191-193: the byte is stored when it is no marker and begin is set
Stores(b, bg) == b # MARKER /\ bg

\* the frame taken for complete one byte later
Complete_Late(pos) == pos = SIZE + 1

\* main.rs:198
Complete(pos) == pos = SIZE

\* main.rs:176-198: one invocation reading byte b, up to the test of line 198.
\* An invocation that does not complete a frame returns at once; one that does
\* is left in front of the lock of line 199, where display may preempt it.
\* (Lines 181-197 touch only locals of receive_byte, so a preemption inside
\* them is the same as one before the invocation.)
RxByte(b) ==
    /\ ~panicked
    /\ UNCHANGED matvars
    /\ rx_pc = "idle"
    /\ CanStart("receive_byte")
    /\ IF Stores(b, begin) /\ next_pos \notin Offsets
       THEN \* rx_image.as_mut()[*next_position]: the index check panics
            /\ panicked' = TRUE
            /\ UNCHANGED <<image, next_pos, begin, rx_pc, running>>
       ELSE /\ image' = IF Stores(b, begin)
                        THEN [image EXCEPT ![rx_image][next_pos] = b]
                        ELSE image
            /\ next_pos' = Advance(b, next_pos)
            /\ begin' = Begun(b, begin)
            /\ IF Complete(Advance(b, next_pos))
               THEN /\ rx_pc' = "lock"
                    /\ running' = Append(running, "receive_byte")
               ELSE UNCHANGED <<rx_pc, running>>
            /\ UNCHANGED panicked
    /\ payload' = IF b = MARKER THEN <<>> ELSE Append(payload, b)
    /\ mark' = IF b # MARKER THEN mark
               ELSE IF ~begin THEN "idle"
               ELSE IF payload = <<>> THEN "again" ELSE "mid"
    /\ pubs' = IF b = MARKER THEN 0 ELSE pubs
    /\ UNCHANGED <<next_image, pool, current_image, rx_image, next_line,
                   contain_image, future_image, disp_pc, lock, rowsel, sda,
                   pub_slot, completed, frame_id, shown, discarded, recycled,
                   cycle>>

\* the sender emits a marker and starts a frame of pattern p
RxMarker ==
    /\ tx_frame < MaxMarkers
    /\ MarkerPoint(Len(payload))
    /\ \E p \in {0, tx_frame + 1} :
          /\ tx_pattern' = p
          /\ tx_frame' = tx_frame + 1
          /\ RxByte(MARKER)

\* the sender emits the next non-marker byte
RxData ==
    /\ Len(payload) < MaxRun
    /\ RxByte(Payload(tx_pattern, Len(payload)))
    /\ UNCHANGED envvars

\* main.rs:199-204: the lock is taken, an unconsumed frame goes back to the pool
RxTake ==
    /\ ~panicked
    /\ UNCHANGED matvars
    /\ rx_pc = "lock"
    /\ Top = "receive_byte"
    /\ lock' = "receive_byte"
    /\ next_image' = Take(next_image)
    /\ pool' = TakeFree(pool, next_image)
    /\ discarded' = IF next_image # None
                    THEN discarded \cup {frame_id[next_image]}
                    ELSE discarded
    /\ rx_pc' = "alloc"
    /\ UNCHANGED <<current_image, rx_image, next_line, next_pos, begin, image,
                   contain_image, future_image, disp_pc, running, panicked,
                   rowsel, sda, envvars, payload, mark, pubs, pub_slot,
                   completed, frame_id, shown, recycled, cycle>>

\* the node handed out as the pool holds it
Fresh_Keep(img) == img

\* main.rs:116-117, 205: .init(Image::default()), the content of a node when
\* its Box is made
Fresh(img) == ImageDefault

\* main.rs:205: pool.alloc().unwrap().init(Image::default())
RxAlloc ==
    /\ ~panicked
    /\ UNCHANGED matvars
    /\ rx_pc = "alloc"
    /\ Top = "receive_byte"
    /\ IF pool = <<>>
       THEN /\ panicked' = TRUE
            /\ UNCHANGED <<pool, future_image, image, rx_pc, frame_id,
                           recycled>>
       ELSE /\ future_image' = Head(pool)
            /\ pool' = Tail(pool)
            /\ image' = [image EXCEPT ![Head(pool)] = Fresh(image[Head(pool)])]
            /\ recycled' = (image[Head(pool)] # ImageDefault)
            /\ frame_id' = [frame_id EXCEPT ![Head(pool)] = 0]
            /\ rx_pc' = "swap"
            /\ UNCHANGED panicked
    /\ UNCHANGED <<next_image, current_image, rx_image, next_line, next_pos,
                   begin, contain_image, disp_pc, running, lock, rowsel, sda,
                   envvars, payload, mark, pubs, pub_slot, completed, shown,
                   discarded, cycle>>

\* an assignment in place of the exchange: the second handle is copied
Swap_Copy(a, b) == <<b, b>>

\* no exchange
Swap_Noop(a, b) == <<a, b>>

\* main.rs:158, 206: core::mem::swap(&mut a, b), the two handles afterwards
Swap(a, b) == <<b, a>>

\* main.rs:206-207: swap(&mut future_image, rx_image); *next_image = Some(..)
RxPublish ==
    /\ ~panicked
    /\ UNCHANGED matvars
    /\ rx_pc = "swap"
    /\ Top = "receive_byte"
    /\ LET sw == Swap(future_image, rx_image)
       IN  /\ rx_image' = sw[2]
           /\ next_image' = sw[1]
           /\ frame_id' = [frame_id EXCEPT ![sw[1]] = completed + 1]
           /\ pub_slot' = sw[1]
    /\ future_image' = None
    /\ rx_pc' = "reset"
    /\ completed' = completed + 1
    /\ pubs' = pubs + 1
    /\ UNCHANGED <<pool, current_image, next_line, next_pos, begin, image,
                   contain_image, disp_pc, running, lock, panicked, rowsel,
                   sda, envvars, payload, mark, shown, discarded, recycled,
                   cycle>>

\* main.rs:209-212: the position and begin are reset, the lock is released
\* and the handler returns
RxReset ==
    /\ ~panicked
    /\ UNCHANGED matvars
    /\ rx_pc = "reset"
    /\ Top = "receive_byte"
    /\ next_pos' = 0
    /\ begin' = FALSE
    /\ lock' = "none"
    /\ running' = Return
    /\ rx_pc' = "idle"
    /\ UNCHANGED <<next_image, pool, current_image, rx_image, next_line,
                   image, contain_image, future_image, disp_pc, panicked,
                   rowsel, sda, envvars, histvars>>

(***************************************************************************)
(* display, main.rs:142-171.                                               *)
(***************************************************************************)
\* the exchange one row early
Boundary_Early(line) == line = LAST_ROW - 1

\* main.rs:151: the row after which the frame is exchanged
Boundary(line) == line = LAST_ROW

\* the row before without the wrap from row 0 to row 7
PreviousRow_NoWrap(row) == IF row = 0 THEN 0 ELSE row - 1

\* matrix.rs:137-143
PreviousRow(row) == IF row = 0 THEN 7 ELSE row - 1

\* image.rs:22-28 calls gamma::gamma_correct, a table lookup
GammaCorrect(x) == (x * x) \div 255

\* matrix.rs:135-155, the pins as send_row(row, pixels) leaves them: the
\* previous row low, the row high, SDA at the last bit sent, which is bit 0
\* of the corrected red channel of pixel 0
SendRowRows(rs, row) ==
    [[rs EXCEPT ![PreviousRow(row)] = FALSE] EXCEPT ![row] = TRUE]

SendRowSda(pixels) == GammaCorrect(pixels[0].r) % 2 = 1

\* image.rs:5-13, 63-64, 117-127: the bytes of an Image are its 64 colours in
\* row-major order, each colour its r, g, b bytes
PixelAt(img, row, col) ==
    [r |-> img[3 * (8 * row + col)],
     g |-> img[3 * (8 * row + col) + 1],
     b |-> img[3 * (8 * row + col) + 2]]

\* image.rs:73-75: Image::row
ImageRow(img, row) == [c \in 0 .. 7 |-> PixelAt(img, row, c)]

\* main.rs:147-152 and 163-170: the row is sent and next_line advanced.  After
\* rows 0..6 the invocation re-arms itself and returns; after row 7 it is left
\* in front of the lock of line 155.
DispRow ==
    /\ ~panicked
    /\ UNCHANGED matvars
    /\ disp_pc = "wait"
    /\ CanStart("display")
    /\ rowsel' = SendRowRows(rowsel, next_line)
    /\ sda' = SendRowSda(ImageRow(image[current_image], next_line))
    /\ LET sent == <<current_image, frame_id[current_image]>>
       IN  cycle' = IF next_line = 0 THEN <<sent>> ELSE Append(cycle, sent)
    /\ IF Boundary(next_line)
       THEN /\ next_line' = 0
            /\ disp_pc' = "lock"
            /\ running' = Append(running, "display")
       ELSE /\ next_line' = next_line + 1
            /\ UNCHANGED <<disp_pc, running>>
    /\ UNCHANGED <<next_image, pool, current_image, rx_image, next_pos, begin,
                   image, contain_image, future_image, rx_pc, lock, panicked,
                   envvars, payload, mark, pubs, pub_slot, completed,
                   frame_id, shown, discarded, recycled>>

\* main.rs:155-157: the lock is taken and next_image.take() evaluated; with
\* nothing published the lock is released and the invocation re-arms itself
DispTake ==
    /\ ~panicked
    /\ UNCHANGED matvars
    /\ disp_pc = "lock"
    /\ Top = "display"
    /\ contain_image' = next_image
    /\ next_image' = Take(next_image)
    /\ IF next_image = None
       THEN /\ disp_pc' = "wait"
            /\ running' = Return
            /\ UNCHANGED lock
       ELSE /\ disp_pc' = "swap"
            /\ lock' = "display"
            /\ UNCHANGED running
    /\ UNCHANGED <<pool, current_image, rx_image, next_line, next_pos, begin,
                   image, future_image, rx_pc, panicked, rowsel, sda, envvars,
                   histvars>>

\* main.rs:158-161 and 167-170: swap(&mut contain_image, current_image),
\* pool.free(contain_image), the lock is released, the invocation re-arms
\* itself and returns
DispSwap ==
    /\ ~panicked
    /\ UNCHANGED matvars
    /\ disp_pc = "swap"
    /\ Top = "display"
    /\ LET sw == Swap(contain_image, current_image)
       IN  /\ current_image' = sw[2]
           /\ pool' = PoolFree(pool, sw[1])
    /\ contain_image' = None
    /\ lock' = "none"
    /\ disp_pc' = "wait"
    /\ running' = Return
    /\ shown' = Append(shown, frame_id[contain_image])
    /\ UNCHANGED <<next_image, rx_image, next_line, next_pos, begin, image,
                   future_image, rx_pc, panicked, rowsel, sda, envvars,
                   payload, mark, pubs, pub_slot, completed, frame_id,
                   discarded, recycled, cycle>>

(***************************************************************************)
(* Matrix::send_row at the level of pin writes, matrix.rs:87-155.          *)
(***************************************************************************)
\* Color::default()
Black == [r |-> 0, g |-> 0, b |-> 0]

BlackRow == [c \in 0 .. 7 |-> Black]

\* Color::gamma_correct, image.rs:22-28
ColorGamma(c) ==
    [r |-> GammaCorrect(c.r), g |-> GammaCorrect(c.g), b |-> GammaCorrect(c.b)]

\* matrix.rs:147, 149, 150: the channels of a pixel in the order they are sent
Channel(c, ch) == IF ch = 0 THEN c.b ELSE IF ch = 1 THEN c.g ELSE c.r

\* matrix.rs:145: for i in (0..=7).rev()
FirstColumn == 7

NextColumn(i) == i - 1

\* the loop left with column 0 unsent
MoreColumns_Short(i) == i > 1

\* matrix.rs:145: the range 0..=7 ends with column 0
MoreColumns(i) == i > 0

\* matrix.rs:120-121: for i in (0..8).rev() { let bit = (pixel >> i) & 0x01
FirstBit == 7

\* least significant bit first
BitOf_LsbFirst(pixel, i) == (pixel \div (2 ^ (7 - i))) % 2

BitOf(pixel, i) == (pixel \div (2 ^ i)) % 2

\* the previous row deactivated in the third column from the end
DeactivateAt_ThirdLast(i) == i = 2

\* matrix.rs:148: if i == 5 { self.row(previous_row, PinState::Low) }
DeactivateAt(i) == i = 5

\* the rows of 8 colours send_row is called with
TestRow(seed) ==
    [c \in 0 .. 7 |->
        [r |-> (37 * seed + 29 * c + 11) % 256,
         g |-> (53 * seed + 31 * c + 101) % 256,
         b |-> (71 * seed + 43 * c + 197) % 256]]

\* the byte send_byte is sending
SentByte == Channel(ColorGamma(m_pixels[m_i]), m_ch)

Emit(pin, level) == events' = Append(events, <<pin, level>>)

\* matrix.rs:135-143: send_row(row, pixels) is entered, rows in cyclic order
\* as display (main.rs:147-165) and display_image (matrix.rs:173-177) call it
SendRowCall ==
    /\ m_pc = "idle"
    /\ \E seed \in 0 .. MaxSeed : m_pixels' = TestRow(seed)
    /\ m_row' = m_next
    /\ m_next' = (m_next + 1) % 8
    /\ m_i' = FirstColumn
    /\ m_ch' = 0
    /\ m_bit' = FirstBit
    /\ m_pc' = "sda"
    /\ events' = <<>>
    /\ UNCHANGED <<sb, lat, rst, sck, sda, rowsel>>
    /\ UNCHANGED <<appvars, envvars, histvars, libvars, newvars>>

\* matrix.rs:121-125: the bit is placed on SDA
SetSda ==
    /\ m_pc = "sda"
    /\ sda' = (BitOf(SentByte, m_bit) = 1)
    /\ Emit("sda", BitOf(SentByte, m_bit) = 1)
    /\ m_pc' = "sck_high"
    /\ UNCHANGED <<sb, lat, rst, sck, rowsel, m_row, m_pixels, m_i, m_ch,
                   m_bit, m_next>>
    /\ UNCHANGED <<appvars, envvars, histvars, libvars, newvars>>

\* matrix.rs:90: pulse_sck, self.sck.set_high()
SckHigh ==
    /\ m_pc = "sck_high"
    /\ sck' = TRUE
    /\ Emit("sck", TRUE)
    /\ m_pc' = "sck_low"
    /\ UNCHANGED <<sb, lat, rst, sda, rowsel, m_row, m_pixels, m_i, m_ch,
                   m_bit, m_next>>
    /\ UNCHANGED <<appvars, envvars, histvars, libvars, newvars>>

\* matrix.rs:91: pulse_sck, self.sck.set_low(); then the loops of send_byte
\* (matrix.rs:120) and send_row (matrix.rs:145-151) advance
SckLow ==
    /\ m_pc = "sck_low"
    /\ sck' = FALSE
    /\ Emit("sck", FALSE)
    /\ IF m_bit > 0
       THEN /\ m_bit' = m_bit - 1
            /\ m_pc' = "sda"
            /\ UNCHANGED <<m_i, m_ch>>
       ELSE /\ m_bit' = FirstBit
            /\ IF m_ch = 0
               THEN /\ m_ch' = 1
                    /\ m_pc' = IF DeactivateAt(m_i) THEN "prev_low" ELSE "sda"
                    /\ UNCHANGED m_i
               ELSE IF m_ch = 1
               THEN /\ m_ch' = 2
                    /\ m_pc' = "sda"
                    /\ UNCHANGED m_i
               ELSE IF MoreColumns(m_i)
               THEN /\ m_ch' = 0
                    /\ m_i' = NextColumn(m_i)
                    /\ m_pc' = "sda"
               ELSE /\ m_pc' = "row_high"
                    /\ UNCHANGED <<m_i, m_ch>>
    /\ UNCHANGED <<sb, lat, rst, sda, rowsel, m_row, m_pixels, m_next>>
    /\ UNCHANGED <<appvars, envvars, histvars, libvars, newvars>>

\* matrix.rs:148: self.row(previous_row, PinState::Low)
PrevLow ==
    /\ m_pc = "prev_low"
    /\ rowsel' = [rowsel EXCEPT ![PreviousRow(m_row)] = FALSE]
    /\ Emit(<<"c", PreviousRow(m_row)>>, FALSE)
    /\ m_pc' = "sda"
    /\ UNCHANGED <<sb, lat, rst, sck, sda, m_row, m_pixels, m_i, m_ch, m_bit,
                   m_next>>
    /\ UNCHANGED <<appvars, envvars, histvars, libvars, newvars>>

\* matrix.rs:152: self.row(row, PinState::High)
RowHigh ==
    /\ m_pc = "row_high"
    /\ rowsel' = [rowsel EXCEPT ![m_row] = TRUE]
    /\ Emit(<<"c", m_row>>, TRUE)
    /\ m_pc' = "lat_low"
    /\ UNCHANGED <<sb, lat, rst, sck, sda, m_row, m_pixels, m_i, m_ch, m_bit,
                   m_next>>
    /\ UNCHANGED <<appvars, envvars, histvars, libvars, newvars>>

\* matrix.rs:97: pulse_lat, self.lat.set_low()
LatLow ==
    /\ m_pc = "lat_low"
    /\ lat' = FALSE
    /\ Emit("lat", FALSE)
    /\ m_pc' = "lat_high"
    /\ UNCHANGED <<sb, rst, sck, sda, rowsel, m_row, m_pixels, m_i, m_ch,
                   m_bit, m_next>>
    /\ UNCHANGED <<appvars, envvars, histvars, libvars, newvars>>

\* matrix.rs:98: pulse_lat, self.lat.set_high(); send_row returns
LatHigh ==
    /\ m_pc = "lat_high"
    /\ lat' = TRUE
    /\ Emit("lat", TRUE)
    /\ m_pc' = "idle"
    /\ UNCHANGED <<sb, rst, sck, sda, rowsel, m_row, m_pixels, m_i, m_ch,
                   m_bit, m_next>>
    /\ UNCHANGED <<appvars, envvars, histvars, libvars, newvars>>

(***************************************************************************)
(* Matrix::new, matrix.rs:31-85, and init_bank0, matrix.rs:161-170.        *)
(***************************************************************************)
\* matrix.rs:54-59: into_push_pull_output_in_state(.., PinState) of the five
\* control pins, in program order
PinConfig ==
    << <<"sb", TRUE>>, <<"lat", TRUE>>, <<"rst", TRUE>>, <<"sck", FALSE>>,
       <<"sda", FALSE>> >>

\* matrix.rs:61-68: the initial state of c0..c7
RowConfig(r) == FALSE

\* matrix.rs:13-20: the fields c0..c7
RowPin(r) == <<"c0", "c1", "c2", "c3", "c4", "c5", "c6", "c7">>[r + 1]

AllPins ==
    {PinConfig[i][1] : i \in DOMAIN PinConfig} \cup {RowPin(r) : r \in 0 .. 7}

\* matrix.rs:76
DELAY_MS == 100

\* matrix.rs:164
BANK_BITS == 144

\* every second bit low
BankBit_Alternate(n) == n % 2 = 0

\* matrix.rs:165: self.sda.set_high() in every iteration
BankBit(n) == TRUE

sendvars == <<m_row, m_pixels, m_i, m_ch, m_bit, m_next>>

\* matrix.rs:54-59: the next control pin becomes an output at its initial level
ConfigurePin ==
    /\ m_pc = "config"
    /\ m_n < Len(PinConfig)
    /\ LET pin   == PinConfig[m_n + 1][1]
           level == PinConfig[m_n + 1][2]
       IN  /\ sb' = IF pin = "sb" THEN level ELSE sb
           /\ lat' = IF pin = "lat" THEN level ELSE lat
           /\ rst' = IF pin = "rst" THEN level ELSE rst
           /\ sck' = IF pin = "sck" THEN level ELSE sck
           /\ sda' = IF pin = "sda" THEN level ELSE sda
           /\ outputs' = outputs \cup {pin}
           /\ Emit(pin, level)
    /\ m_n' = m_n + 1
    /\ UNCHANGED <<m_pc, rowsel, elapsed, sendvars>>
    /\ UNCHANGED <<appvars, envvars, histvars, libvars>>

\* matrix.rs:61-68: the next row-select pin becomes an output
ConfigureRow ==
    /\ m_pc = "config"
    /\ m_n >= Len(PinConfig)
    /\ LET r == m_n - Len(PinConfig)
       IN  /\ rowsel' = [rowsel EXCEPT ![r] = RowConfig(r)]
           /\ outputs' = outputs \cup {RowPin(r)}
           /\ Emit(<<"c", r>>, RowConfig(r))
           /\ m_pc' = IF r = 7 THEN "delay" ELSE "config"
    /\ m_n' = m_n + 1
    /\ UNCHANGED <<sb, lat, rst, sck, sda, elapsed, sendvars>>
    /\ UNCHANGED <<appvars, envvars, histvars, libvars>>

\* matrix.rs:76-77: DelayCM::new(clocks).delay_ms(100), a millisecond goes by
DelayMs ==
    /\ m_pc = "delay"
    /\ elapsed < DELAY_MS
    /\ elapsed' = elapsed + 1
    /\ m_pc' = IF elapsed + 1 = DELAY_MS THEN "rst_high" ELSE "delay"
    /\ UNCHANGED <<sb, lat, rst, sck, sda, rowsel, events, outputs, m_n,
                   sendvars>>
    /\ UNCHANGED <<appvars, envvars, histvars, libvars>>

\* matrix.rs:79: new_matrix.rst.set_high()
RstHigh ==
    /\ m_pc = "rst_high"
    /\ rst' = TRUE
    /\ Emit("rst", TRUE)
    /\ m_pc' = "bank_sb_low"
    /\ UNCHANGED <<sb, lat, sck, sda, rowsel, newvars, sendvars>>
    /\ UNCHANGED <<appvars, envvars, histvars, libvars>>

\* matrix.rs:81, 162: init_bank0 is entered, self.sb.set_low()
BankSbLow ==
    /\ m_pc = "bank_sb_low"
    /\ sb' = FALSE
    /\ events' = << <<"sb", FALSE>> >>
    /\ m_n' = 0
    /\ m_pc' = "bank_sda"
    /\ UNCHANGED <<lat, rst, sck, sda, rowsel, outputs, elapsed, sendvars>>
    /\ UNCHANGED <<appvars, envvars, histvars, libvars>>

\* matrix.rs:165: self.sda.set_high()
BankSda ==
    /\ m_pc = "bank_sda"
    /\ sda' = BankBit(m_n)
    /\ Emit("sda", BankBit(m_n))
    /\ m_pc' = "bank_sck_high"
    /\ UNCHANGED <<sb, lat, rst, sck, rowsel, newvars, sendvars>>
    /\ UNCHANGED <<appvars, envvars, histvars, libvars>>

\* matrix.rs:166, 90: pulse_sck, self.sck.set_high()
BankSckHigh ==
    /\ m_pc = "bank_sck_high"
    /\ sck' = TRUE
    /\ Emit("sck", TRUE)
    /\ m_pc' = "bank_sck_low"
    /\ UNCHANGED <<sb, lat, rst, sda, rowsel, newvars, sendvars>>
    /\ UNCHANGED <<appvars, envvars, histvars, libvars>>

\* matrix.rs:166, 91: pulse_sck, self.sck.set_low(); the loop of matrix.rs:164
\* advances
BankSckLow ==
    /\ m_pc = "bank_sck_low"
    /\ sck' = FALSE
    /\ Emit("sck", FALSE)
    /\ m_n' = m_n + 1
    /\ m_pc' = IF m_n + 1 < BANK_BITS THEN "bank_sda" ELSE "bank_lat_low"
    /\ UNCHANGED <<sb, lat, rst, sda, rowsel, outputs, elapsed, sendvars>>
    /\ UNCHANGED <<appvars, envvars, histvars, libvars>>

\* matrix.rs:168, 97: pulse_lat, self.lat.set_low()
BankLatLow ==
    /\ m_pc = "bank_lat_low"
    /\ lat' = FALSE
    /\ Emit("lat", FALSE)
    /\ m_pc' = "bank_lat_high"
    /\ UNCHANGED <<sb, rst, sck, sda, rowsel, newvars, sendvars>>
    /\ UNCHANGED <<appvars, envvars, histvars, libvars>>

\* matrix.rs:168, 98: pulse_lat, self.lat.set_high()
BankLatHigh ==
    /\ m_pc = "bank_lat_high"
    /\ lat' = TRUE
    /\ Emit("lat", TRUE)
    /\ m_pc' = "bank_sb_high"
    /\ UNCHANGED <<sb, rst, sck, sda, rowsel, newvars, sendvars>>
    /\ UNCHANGED <<appvars, envvars, histvars, libvars>>

\* matrix.rs:169, 83: self.sb.set_high(); init_bank0 and Matrix::new return
BankSbHigh ==
    /\ m_pc = "bank_sb_high"
    /\ sb' = TRUE
    /\ Emit("sb", TRUE)
    /\ m_pc' = "idle"
    /\ UNCHANGED <<lat, rst, sck, sda, rowsel, newvars, sendvars>>
    /\ UNCHANGED <<appvars, envvars, histvars, libvars>>

(***************************************************************************)
(* Image::gradient, image.rs:78-86, with Div<f32> for Color, image.rs:51-61.*)
(***************************************************************************)
\* f32 keeps 16 fractional bits for values in 128 .. 256 and more below
F32_FRACTION == 65536

\* x as f32 / d as f32 for a u8 x and a divisor d in 1 .. 255, in units of
\* 1 / F32_FRACTION: both operands are exact, the quotient is rounded to the
\* nearest representable value
DivF32(x, d) == (2 * x * F32_FRACTION + d) \div (2 * d)

\* the quotient rounded to the nearest integer
ToU8_Round(q) ==
    IF q > 255 * F32_FRACTION THEN 255
    ELSE (q + F32_FRACTION \div 2) \div F32_FRACTION

\* image.rs:31-37: max(input), 255 above 255 and `input as u8` otherwise,
\* which drops the fraction
ToU8(q) == IF q > 255 * F32_FRACTION THEN 255 ELSE q \div F32_FRACTION

\* image.rs:54-60: Color / f32
ColorDiv(c, d) ==
    [r |-> ToU8(DivF32(c.r, d)),
     g |-> ToU8(DivF32(c.g, d)),
     b |-> ToU8(DivF32(c.b, d))]

\* image.rs:82: (1 + row * row + col) as f32
Divisor(row, col) == 1 + row * row + col

\* image.rs:101-102, 111-112: the place of pixel (row, col) in the table
UIndex(row, col) == 8 * row + col

\* the colours gradient is called with: every channel takes every u8 value
GradColors ==
    {[r |-> v, g |-> (v + 85) % 256, b |-> (v + 170) % 256] : v \in 0 .. 255}

GradIdle ==
    /\ g_pc = "idle"
    /\ g_color = Black
    /\ g_row = 0
    /\ g_col = 0
    /\ grad = [k \in 0 .. 63 |-> Black]

\* image.rs:80-84: one iteration of the inner loop
GradientPixel ==
    /\ g_pc = "loop"
    /\ g_row < 8
    /\ grad' = [grad EXCEPT ![UIndex(g_row, g_col)] =
                    ColorDiv(g_color, Divisor(g_row, g_col))]
    /\ IF g_col < 7
       THEN g_col' = g_col + 1 /\ UNCHANGED g_row
       ELSE g_col' = 0 /\ g_row' = g_row + 1
    /\ UNCHANGED <<g_pc, g_color>>
    /\ UNCHANGED <<sysvars, envvars, histvars, drivervars, vmvars, schedvars>>

\* image.rs:85: grad is returned
GradientReturn ==
    /\ g_pc = "loop"
    /\ g_row = 8
    /\ g_pc' = "done"
    /\ UNCHANGED <<g_color, g_row, g_col, grad>>
    /\ UNCHANGED <<sysvars, envvars, histvars, drivervars, vmvars, schedvars>>

(***************************************************************************)
(* The virtual machine, tp-rust-2/src/machine.rs.                          *)
(***************************************************************************)
\* machine.rs:3
MEMORY_SIZE == 4096

\* machine.rs:4
NREGS == 16

\* machine.rs:6
IP == 0

\* the calls of step_on a run is followed for
MaxSteps == 5

\* instructions per program
ProgLen == 2

\* a u32 as its two 16-bit halves
HALF == 65536

U32(n) == [hi |-> n \div HALF, lo |-> n % HALF]

Zero32 == U32(0)

\* v < n, for n up to HALF
Below(v, n) == v.hi = 0 /\ v.lo < n

\* machine.rs:229: (regb_data - regc_data) as u32 on i64 operands, the
\* difference modulo 2^32
Sub32(b, c) ==
    LET borrow == IF b.lo < c.lo THEN 1 ELSE 0
    IN  [hi |-> (b.hi - c.hi - borrow + 2 * HALF) % HALF,
         lo |-> (b.lo - c.lo + HALF) % HALF]

\* machine.rs:211: ((b3 as i16) << 8 | (b2 as i16)) as u32, the 16-bit value
\* b3:b2 sign-extended
Imm32(b2, b3) ==
    [hi |-> IF b3 >= 128 THEN HALF - 1 ELSE 0, lo |-> 256 * b3 + b2]

\* machine.rs:171: src_data.to_le_bytes()
LeBytes(v) == <<v.lo % 256, v.lo \div 256, v.hi % 256, v.hi \div 256>>

\* machine.rs:192-195: value |= (memory[regb_ad + i] as u32) << (i * 8)
FromLe(mem, a) ==
    [hi |-> mem[a + 2] + 256 * mem[a + 3], lo |-> mem[a] + 256 * mem[a + 1]]

\* machine.rs:264: regs[b1] as i32
AsI32(v) == (IF v.hi >= HALF \div 2 THEN v.hi - HALF ELSE v.hi) * HALF + v.lo

\* machine.rs:241-244: (regs[b1] as u8) as char, encoded as UTF-8
Utf8(v) ==
    LET c == v.lo % 256
    IN  IF c < 128 THEN <<c>> ELSE <<192 + (c \div 64), 128 + (c % 64)>>

\* every instruction taken for four bytes long
Decode_Four(opcode) == 4

\* machine.rs:274-288
Decode(opcode) ==
    IF opcode \in {1, 4, 5} THEN 4
    ELSE IF opcode \in {2, 3} THEN 3
    ELSE IF opcode \in {6, 8} THEN 2
    ELSE IF opcode = 7 THEN 1
    ELSE 0

\* the instructions programs are made of
Instructions ==
    { <<4, 1, 5, 0>>,     \* load_imm r1, 5
      <<4, 2, 56, 255>>,  \* load_imm r2, -200
      <<4, 4, 252, 15>>,  \* load_imm r4, 4092
      <<4, 0, 0, 16>>,    \* load_imm r0, 4096
      <<5, 1, 1, 2>>,     \* sub r1, r1, r2
      <<1, 0, 3, 1>>,     \* move r0, r3 if r1 != 0
      <<1, 16, 0, 0>>,    \* move with a register that does not exist
      <<2, 4, 1>>,        \* store [r4], r1
      <<2, 1, 2>>,        \* store [r1], r2
      <<3, 5, 4>>,        \* load r5, [r4]
      <<6, 2>>,           \* out r2
      <<8, 2>>,           \* out_number r2
      <<7>>,              \* exit
      <<9>> }             \* no instruction

RECURSIVE Concat(_)
Concat(ss) == IF ss = <<>> THEN <<>> ELSE Head(ss) \o Concat(Tail(ss))

Programs == {Concat(is) : is \in [1 .. ProgLen -> Instructions]}

\* machine.rs:35-48: Machine::new, the program at the start of a zero memory
MachineNew(prog) ==
    [a \in 0 .. MEMORY_SIZE - 1 |-> IF a < Len(prog) THEN prog[a + 1] ELSE 0]

NoTouch == [mem |-> {}, reg |-> {}]

\* memory[a] for a in mems and regs[i] for i in regs are evaluated
Touch(mems, regs) ==
    vm_touch' = [mem |-> vm_touch.mem \cup mems, reg |-> vm_touch.reg \cup regs]

\* an index outside its array: the bounds check of the indexing panics
Panics(mems, regs) ==
    \/ \E a \in mems : a >= MEMORY_SIZE
    \/ \E i \in regs : i >= NREGS

\* v as usize; the addresses from HALF on, all outside the memory, are not
\* told apart
Usize(v) == IF v.hi = 0 THEN v.lo ELSE HALF

\* the address taken for inside as long as it is the address of a byte
PastLastWord_Byte(v) == ~Below(v, MEMORY_SIZE)

\* machine.rs:157, 162 and 179, 187: the address is above MEMORY_SIZE - 4
PastLastWord(v) == ~Below(v, MEMORY_SIZE - 4 + 1)

VmIdle ==
    /\ vm_memory = <<>>
    /\ vm_regs = <<>>
    /\ vm_pc = "idle"
    /\ vm_ip0 = 0
    /\ vm_opcode = 0
    /\ vm_b = <<0, 0, 0>>
    /\ vm_result = "none"
    /\ vm_results = <<>>
    /\ vm_run = "running"
    /\ vm_out = <<>>
    /\ vm_touch = NoTouch

nonvm == <<sysvars, envvars, histvars, drivervars, gradvars, schedvars>>

\* machine.rs:81-102: step_on up to its match: the opcode is read at IP, IP is
\* moved past the instruction, the operand bytes are read
StepOnDecode ==
    /\ vm_pc = "step"
    /\ IF ~Below(vm_regs[IP], MEMORY_SIZE)
       THEN /\ vm_result' = "Err(MemoryOutOfBoundsStepOn)"
            /\ vm_results' = Append(vm_results, "Err(MemoryOutOfBoundsStepOn)")
            /\ vm_pc' = "check"
            /\ vm_touch' = [mem |-> {}, reg |-> {IP}]
            /\ UNCHANGED <<vm_regs, vm_ip0, vm_opcode, vm_b>>
       ELSE LET ad   == vm_regs[IP].lo
                byte(k) == IF ad + k < MEMORY_SIZE THEN vm_memory[ad + k]
                           ELSE 0
            IN  /\ vm_ip0' = ad
                /\ vm_opcode' = vm_memory[ad]
                /\ vm_regs' = [vm_regs EXCEPT
                                  ![0] = U32(ad + Decode(vm_memory[ad]))]
                /\ vm_b' = <<byte(1), byte(2), byte(3)>>
                /\ vm_touch' =
                       [mem |-> {ad} \cup
                                {ad + k : k \in {j \in 1 .. 3 :
                                                    ad + j < MEMORY_SIZE}},
                        reg |-> {IP, 0}]
                /\ vm_pc' = "exec"
                /\ UNCHANGED <<vm_result, vm_results>>
    /\ UNCHANGED <<vm_memory, vm_run, vm_out, nonvm>>

\* the instruction returns res to step_on, which returns it to run_on
Returns(res) ==
    /\ vm_result' = res
    /\ vm_results' = Append(vm_results, res)
    /\ vm_pc' = "check"
    /\ UNCHANGED <<vm_ip0, vm_opcode, vm_b, vm_run, nonvm>>

\* machine.rs:141-153
Move ==
    /\ vm_pc = "exec" /\ vm_opcode = 1
    /\ IF \E k \in 1 .. 3 : vm_b[k] >= NREGS
       THEN Returns("Err(OutOfBounds)") /\ UNCHANGED <<vm_regs, vm_touch>>
       ELSE IF Panics({}, {vm_b[2], vm_b[3]})
       THEN Returns("panic") /\ UNCHANGED vm_regs
            /\ Touch({}, {vm_b[2], vm_b[3]})
       ELSE /\ vm_regs' = IF vm_regs[vm_b[3]] # Zero32
                           THEN [vm_regs EXCEPT ![vm_b[1]] = vm_regs[vm_b[2]]]
                           ELSE vm_regs
            /\ Touch({}, {vm_b[2], vm_b[3]} \cup
                          (IF vm_regs[vm_b[3]] # Zero32 THEN {vm_b[1]}
                           ELSE {}))
            /\ Returns("Ok(false)")
    /\ UNCHANGED <<vm_memory, vm_out>>

\* machine.rs:155-173
Store ==
    /\ vm_pc = "exec" /\ vm_opcode = 2
    /\ IF vm_b[1] > NREGS - 1 \/ vm_b[2] > NREGS - 1
       THEN Returns("Err(OutOfBounds)") /\ UNCHANGED <<vm_memory, vm_touch>>
       ELSE IF Panics({}, {vm_b[1]})
       THEN Returns("panic") /\ UNCHANGED vm_memory /\ Touch({}, {vm_b[1]})
       ELSE IF PastLastWord(vm_regs[vm_b[1]])
       THEN /\ Returns("Err(MemoryOutOfBoundsStore)")
            /\ UNCHANGED vm_memory
            /\ Touch({}, {vm_b[1]})
       ELSE LET dest == Usize(vm_regs[vm_b[1]])
                data == LeBytes(vm_regs[vm_b[2]])
            IN  IF Panics(dest .. dest + 3, {vm_b[1], vm_b[2]})
                THEN /\ Returns("panic")
                     /\ UNCHANGED vm_memory
                     /\ Touch(dest .. dest + 3, {vm_b[1], vm_b[2]})
                ELSE /\ vm_memory' =
                            [a \in 0 .. MEMORY_SIZE - 1 |->
                                IF a >= dest /\ a < dest + 4
                                THEN data[a - dest + 1] ELSE vm_memory[a]]
                     /\ Touch(dest .. dest + 3, {vm_b[1], vm_b[2]})
                     /\ Returns("Ok(false)")
    /\ UNCHANGED <<vm_regs, vm_out>>

\* machine.rs:177-199
Load ==
    /\ vm_pc = "exec" /\ vm_opcode = 3
    /\ IF vm_b[1] > NREGS - 1 \/ vm_b[2] > NREGS - 1
       THEN Returns("Err(RegisterOutOfBounds)")
            /\ UNCHANGED <<vm_regs, vm_touch>>
       ELSE IF Panics({}, {vm_b[2]})
       THEN Returns("panic") /\ UNCHANGED vm_regs /\ Touch({}, {vm_b[2]})
       ELSE IF PastLastWord(vm_regs[vm_b[2]])
       THEN /\ Returns("Err(MemoryOutOfBoundsLoad)")
            /\ UNCHANGED vm_regs
            /\ Touch({}, {vm_b[2]})
       ELSE LET regb_ad == Usize(vm_regs[vm_b[2]])
            IN  IF Panics(regb_ad .. regb_ad + 3, {vm_b[1], vm_b[2]})
                THEN /\ Returns("panic")
                     /\ UNCHANGED vm_regs
                     /\ Touch(regb_ad .. regb_ad + 3, {vm_b[1], vm_b[2]})
                ELSE /\ vm_regs' = [vm_regs EXCEPT
                                       ![vm_b[1]] = FromLe(vm_memory, regb_ad)]
                     /\ Touch(regb_ad .. regb_ad + 3, {vm_b[1], vm_b[2]})
                     /\ Returns("Ok(false)")
    /\ UNCHANGED <<vm_memory, vm_out>>

\* machine.rs:203-214
LoadImm ==
    /\ vm_pc = "exec" /\ vm_opcode = 4
    /\ IF vm_b[1] > NREGS - 1
       THEN Returns("Err(OutOfBounds)") /\ UNCHANGED <<vm_regs, vm_touch>>
       ELSE IF Panics({}, {vm_b[1]})
       THEN Returns("panic") /\ UNCHANGED vm_regs /\ Touch({}, {vm_b[1]})
       ELSE /\ vm_regs' = [vm_regs EXCEPT ![vm_b[1]] = Imm32(vm_b[2], vm_b[3])]
            /\ Touch({}, {vm_b[1]})
            /\ Returns("Ok(false)")
    /\ UNCHANGED <<vm_memory, vm_out>>

\* machine.rs:217-231
Sub ==
    /\ vm_pc = "exec" /\ vm_opcode = 5
    /\ IF \E k \in 1 .. 3 : vm_b[k] > NREGS - 1
       THEN Returns("Err(OutOfBounds)") /\ UNCHANGED <<vm_regs, vm_touch>>
       ELSE IF Panics({}, {vm_b[1], vm_b[2], vm_b[3]})
       THEN /\ Returns("panic")
            /\ UNCHANGED vm_regs
            /\ Touch({}, {vm_b[1], vm_b[2], vm_b[3]})
       ELSE /\ vm_regs' = [vm_regs EXCEPT
                   ![vm_b[1]] = Sub32(vm_regs[vm_b[2]], vm_regs[vm_b[3]])]
            /\ Touch({}, {vm_b[1], vm_b[2], vm_b[3]})
            /\ Returns("Ok(false)")
    /\ UNCHANGED <<vm_memory, vm_out>>

\* machine.rs:234-250: the write to fd succeeds or fails
Out ==
    /\ vm_pc = "exec" /\ vm_opcode = 6
    /\ IF vm_b[1] > NREGS - 1
       THEN Returns("Err(OutOfBounds)") /\ UNCHANGED <<vm_out, vm_touch>>
       ELSE IF Panics({}, {vm_b[1]})
       THEN Returns("panic") /\ UNCHANGED vm_out /\ Touch({}, {vm_b[1]})
       ELSE /\ Touch({}, {vm_b[1]})
            /\ \E written \in BOOLEAN :
                  IF written
                  THEN /\ vm_out' = vm_out \o Utf8(vm_regs[vm_b[1]])
                       /\ Returns("Ok(false)")
                  ELSE Returns("Err(IoError)") /\ UNCHANGED vm_out
    /\ UNCHANGED <<vm_memory, vm_regs>>

\* machine.rs:252-254
Exit ==
    /\ vm_pc = "exec" /\ vm_opcode = 7
    /\ Returns("Ok(true)")
    /\ UNCHANGED <<vm_memory, vm_regs, vm_out, vm_touch>>

\* machine.rs:256-269: the number is written as a signed decimal
OutNumber ==
    /\ vm_pc = "exec" /\ vm_opcode = 8
    /\ IF vm_b[1] > NREGS - 1
       THEN Returns("Err(OutOfBounds)") /\ UNCHANGED <<vm_out, vm_touch>>
       ELSE IF Panics({}, {vm_b[1]})
       THEN Returns("panic") /\ UNCHANGED vm_out /\ Touch({}, {vm_b[1]})
       ELSE /\ Touch({}, {vm_b[1]})
            /\ \E written \in BOOLEAN :
                  IF written
                  THEN /\ vm_out' = Append(vm_out,
                                      <<"decimal", AsI32(vm_regs[vm_b[1]])>>)
                       /\ Returns("Ok(false)")
                  ELSE Returns("Err(IoError)") /\ UNCHANGED vm_out
    /\ UNCHANGED <<vm_memory, vm_regs>>

\* machine.rs:111: any other opcode
WrongInstruction ==
    /\ vm_pc = "exec" /\ vm_opcode \notin 1 .. 8
    /\ Returns("Err(WrongInstruction)")
    /\ UNCHANGED <<vm_memory, vm_regs, vm_out, vm_touch>>

\* machine.rs:54-60: run_on looks at what step_on returned
RunOnLoop ==
    /\ vm_pc = "check"
    /\ IF vm_result = "Ok(true)"
       THEN vm_run' = "Ok(())" /\ vm_pc' = "done"
       ELSE IF vm_result = "Ok(false)"
       THEN /\ Len(vm_results) < MaxSteps
            /\ vm_pc' = "step"
            /\ UNCHANGED vm_run
       ELSE vm_run' = vm_result /\ vm_pc' = "done"
    /\ UNCHANGED <<vm_memory, vm_regs, vm_ip0, vm_opcode, vm_b, vm_result,
                   vm_results, vm_out, vm_touch, nonvm>>

(***************************************************************************)
(* display as a periodic task, main.rs:120 and 142-171.                    *)
(***************************************************************************)
\* main.rs:40: DwtSystick<80_000_000>, ticks per second
TICKS_PER_SEC == 80000000

\* display invocations followed
MaxInvocations == 10

\* main.rs:167: (1.secs() / 8) / 60, integer divisions of a tick count
Period == (TICKS_PER_SEC \div 8) \div 60

\* the successor scheduled a period after the current time
NextTime_FromNow(at, t) == t + Period

\* main.rs:168: let next_time: Instant = at + period
NextTime(at, t) == at + Period

\* the values of mono.now() when init spawns display
Starts == {0, 1000}

\* the amounts of time that go by in one piece: half a period, a period
Lapses == {Period \div 2, Period}

Horizon == d_start + (MaxInvocations + 1) * Period

\* display::Context has one slot for a scheduled invocation (no capacity is
\* given at main.rs:142)
DISPLAY_CAPACITY == 1

SchedOff ==
    /\ now = 0
    /\ timerq = <<>>
    /\ d_pc = "off"
    /\ d_at = 0
    /\ d_start = 0
    /\ d_log = <<>>

nonsched == <<envvars, histvars, drivervars, gradvars, vmvars>>

\* time goes by, whatever display is doing
ClockAdvance ==
    /\ d_pc # "off"
    /\ \E lapse \in Lapses :
          /\ now + lapse <= Horizon
          /\ now' = now + lapse
    /\ UNCHANGED <<timerq, d_pc, d_at, d_start, d_log>>
    /\ UNCHANGED <<sysvars, nonsched>>

\* the timer queue hands an expired invocation to display, which has the
\* highest priority; its slot is free again
DisplayDispatch ==
    /\ d_pc = "idle"
    /\ ~panicked
    /\ timerq # <<>>
    /\ Head(timerq) <= now
    /\ Len(d_log) < MaxInvocations
    /\ d_at' = Head(timerq)
    /\ timerq' = Tail(timerq)
    /\ d_log' = Append(d_log, <<next_line, Head(timerq)>>)
    /\ d_pc' = "body"
    /\ UNCHANGED <<now, d_start>>
    /\ UNCHANGED <<sysvars, nonsched>>

\* main.rs:147-165: the row is sent, next_line advanced, and at the boundary
\* a published frame exchanged
DisplayBody ==
    /\ d_pc = "body"
    /\ rowsel' = SendRowRows(rowsel, next_line)
    /\ sda' = SendRowSda(ImageRow(image[current_image], next_line))
    /\ next_line' = IF Boundary(next_line) THEN 0 ELSE next_line + 1
    /\ IF Boundary(next_line) /\ next_image # None
       THEN LET sw == Swap(next_image, current_image)
            IN  /\ current_image' = sw[2]
                /\ pool' = PoolFree(pool, sw[1])
                /\ next_image' = Take(next_image)
       ELSE UNCHANGED <<next_image, pool, current_image>>
    /\ d_pc' = "spawn"
    /\ UNCHANGED <<now, timerq, d_at, d_start, d_log>>
    /\ UNCHANGED <<rx_image, next_pos, begin, image, contain_image,
                   future_image, disp_pc, rx_pc, running, lock, panicked,
                   nonsched>>

\* main.rs:167-170: display::spawn_at(next_time, next_time).unwrap()
DisplaySpawnAt ==
    /\ d_pc = "spawn"
    /\ IF Len(timerq) >= DISPLAY_CAPACITY
       THEN panicked' = TRUE /\ UNCHANGED timerq
       ELSE /\ timerq' = Append(timerq, NextTime(d_at, now))
            /\ UNCHANGED panicked
    /\ d_pc' = "idle"
    /\ UNCHANGED <<now, d_at, d_start, d_log>>
    /\ UNCHANGED <<next_image, pool, current_image, rx_image, next_line,
                   next_pos, begin, image, contain_image, future_image,
                   disp_pc, rx_pc, running, lock, rowsel, sda, nonsched>>

(***************************************************************************)
(* init, main.rs:110-118, after Matrix::new (matrix.rs:54-83).             *)
(***************************************************************************)
InitTasks ==
    /\ next_image = None
    /\ pool = <<1>>
    /\ current_image = 3
    /\ rx_image = 2
    /\ next_line = 0
    /\ next_pos = 0
    /\ begin = FALSE
    /\ image = [s \in Slots |-> ImageDefault]
    /\ contain_image = None
    /\ future_image = None
    /\ disp_pc = "wait"
    /\ rx_pc = "idle"
    /\ running = <<>>
    /\ lock = "none"
    /\ panicked = FALSE
    /\ m_row = 0
    /\ m_pixels = BlackRow
    /\ m_i = 0
    /\ m_ch = 0
    /\ m_bit = 0
    /\ m_next = 0
    /\ tx_frame = 0
    /\ tx_pattern = 0
    /\ payload = <<>>
    /\ mark = "none"
    /\ pubs = 0
    /\ pub_slot = None
    /\ completed = 0
    /\ frame_id = [s \in Slots |-> 0]
    /\ shown = <<>>
    /\ discarded = {}
    /\ recycled = FALSE
    /\ cycle = <<>>

\* no library function is being executed
LibIdle == GradIdle /\ VmIdle /\ SchedOff

\* the pins as Matrix::new leaves them
InitPins ==
    /\ sb = TRUE
    /\ lat = TRUE
    /\ rst = TRUE
    /\ sck = FALSE
    /\ sda = TRUE
    /\ rowsel = [r \in 0 .. 7 |-> FALSE]
    /\ m_pc = "idle"
    /\ events = <<>>
    /\ outputs = AllPins
    /\ elapsed = DELAY_MS
    /\ m_n = BANK_BITS

Init == InitTasks /\ InitPins /\ LibIdle

\* Image::gradient(color) is entered
InitGradient ==
    /\ InitTasks
    /\ InitPins
    /\ g_pc = "loop"
    /\ g_color \in GradColors
    /\ g_row = 0
    /\ g_col = 0
    /\ grad = [k \in 0 .. 63 |-> Black]
    /\ VmIdle
    /\ SchedOff

\* Machine::new(program) followed by the call of run_on
InitMachine ==
    /\ InitTasks
    /\ InitPins
    /\ GradIdle
    /\ \E prog \in Programs : vm_memory = MachineNew(prog)
    /\ vm_regs = [r \in 0 .. NREGS - 1 |-> Zero32]
    /\ vm_pc = "step"
    /\ vm_ip0 = 0
    /\ vm_opcode = 0
    /\ vm_b = <<0, 0, 0>>
    /\ vm_result = "none"
    /\ vm_results = <<>>
    /\ vm_run = "running"
    /\ vm_out = <<>>
    /\ vm_touch = NoTouch
    /\ SchedOff

\* the largest u32
Max32 == [hi |-> HALF - 1, lo |-> HALF - 1]

\* the values of IP step_on is called with: the first address, the last
\* ones, from which an instruction runs over the end, and addresses outside
StepIPs == {U32(0), U32(MEMORY_SIZE - 3), U32(MEMORY_SIZE - 1),
            U32(MEMORY_SIZE), Max32}

\* the values of the other registers: the address of the last word, the
\* addresses after it, the largest u32
StepValues == {U32(MEMORY_SIZE - 4), U32(MEMORY_SIZE - 3), U32(MEMORY_SIZE - 1),
               Max32}

\* the opcode bytes: no instruction, the eight instructions, no instruction
StepOpcodes == 0 .. 9

\* the operand bytes: registers 1, 2 and 15, and in each place a register
\* that does not exist
StepOperands == {<<1, 2, 1>>, <<2, 1, 2>>, <<15, 15, 15>>, <<16, 1, 1>>,
                 <<1, 16, 1>>, <<1, 1, 16>>, <<255, 255, 255>>}

\* the memory with the instruction op, b at address ad, cut at the end of the
\* memory, and at address 0 when ad is outside
MemoryWith(ad, op, b) ==
    LET at == IF ad < MEMORY_SIZE THEN ad ELSE 0
    IN  [a \in 0 .. MEMORY_SIZE - 1 |->
            IF a = at THEN op
            ELSE IF a > at /\ a <= at + 3 THEN b[a - at]
            ELSE 0]

\* step_on is called on a machine in any state: Machine::new takes any
\* memory, set_reg any register value
InitStep ==
    /\ InitTasks
    /\ InitPins
    /\ GradIdle
    /\ SchedOff
    /\ \E ip \in StepIPs, v \in StepValues, w \in {Zero32, U32(MEMORY_SIZE - 4)},
          op \in StepOpcodes, b \in StepOperands :
          /\ vm_memory = MemoryWith(Usize(ip), op, b)
          /\ vm_regs = [r \in 0 .. NREGS - 1 |->
                           IF r = IP THEN ip ELSE IF r = 2 THEN w ELSE v]
    /\ vm_pc = "step"
    /\ vm_ip0 = 0
    /\ vm_opcode = 0
    /\ vm_b = <<0, 0, 0>>
    /\ vm_result = "none"
    /\ vm_results = <<>>
    /\ vm_run = "running"
    /\ vm_out = <<>>
    /\ vm_touch = NoTouch

\* init has returned at one of the instants Starts, display spawned at it
InitSchedule ==
    /\ InitTasks
    /\ InitPins
    /\ GradIdle
    /\ VmIdle
    /\ now \in Starts
    /\ timerq = <<now>>
    /\ d_pc = "idle"
    /\ d_at = 0
    /\ d_start = now
    /\ d_log = <<>>

\* Matrix::new is entered: no pin is an output yet (the level variables are
\* meaningless for a pin outside outputs)
InitNew ==
    /\ InitTasks
    /\ LibIdle
    /\ sb = FALSE
    /\ lat = FALSE
    /\ rst = FALSE
    /\ sck = FALSE
    /\ sda = FALSE
    /\ rowsel = [r \in 0 .. 7 |-> FALSE]
    /\ m_pc = "config"
    /\ events = <<>>
    /\ outputs = {}
    /\ elapsed = 0
    /\ m_n = 0

Next ==
    \/ RxMarker
    \/ RxData
    \/ RxTake
    \/ RxAlloc
    \/ RxPublish
    \/ RxReset
    \/ DispRow
    \/ DispTake
    \/ DispSwap

Spec == Init /\ [][Next]_vars

\* the driver alone, one pin write per step
NextMatrix ==
    \/ SendRowCall
    \/ SetSda
    \/ SckHigh
    \/ SckLow
    \/ PrevLow
    \/ RowHigh
    \/ LatLow
    \/ LatHigh

SpecMatrix == Init /\ [][NextMatrix]_vars

\* the construction of the driver, one pin write or millisecond per step
NextNew ==
    \/ ConfigurePin
    \/ ConfigureRow
    \/ DelayMs
    \/ RstHigh
    \/ BankSbLow
    \/ BankSda
    \/ BankSckHigh
    \/ BankSckLow
    \/ BankLatLow
    \/ BankLatHigh
    \/ BankSbHigh

SpecNew == InitNew /\ [][NextNew]_vars

\* Image::gradient on its own, one pixel per step
NextGradient ==
    \/ GradientPixel
    \/ GradientReturn

SpecGradient == InitGradient /\ [][NextGradient]_vars

\* Machine::run_on, one decode or one instruction per step
NextMachine ==
    \/ StepOnDecode
    \/ Move
    \/ Store
    \/ Load
    \/ LoadImm
    \/ Sub
    \/ Out
    \/ Exit
    \/ OutNumber
    \/ WrongInstruction
    \/ RunOnLoop

SpecMachine == InitMachine /\ [][NextMachine]_vars

\* step_on from any state of the machine
SpecStep == InitStep /\ [][NextMachine]_vars

\* display under the timer, with nothing received
NextSchedule ==
    \/ ClockAdvance
    \/ DisplayDispatch
    \/ DisplayBody
    \/ DisplaySpawnAt

SpecSchedule == InitSchedule /\ [][NextSchedule]_vars

(***************************************************************************)
(* Properties.                                                             *)
(***************************************************************************)
Range(f) == {f[i] : i \in DOMAIN f}

Some(opt) == IF opt = None THEN 0 ELSE 1

\* the frame handles alive: the two locals, the shared slot and the locals of
\* the critical sections
LiveCount == 2 + Some(next_image) + Some(contain_image) + Some(future_image)

\* the frame receive_byte assembles from the payload pl: offset 0 is never
\* written, payload byte k lands at offset k + 1
FrameOf(pl) == [i \in Offsets |-> IF i = 0 THEN 0 ELSE pl[i]]

\* C1: the live frame allocations never exceed the pool capacity of 3, free
\* slots + live allocations = 3, and pool.alloc().unwrap() of receive_byte
\* never finds the pool empty (nothing panics).
C1_PoolNeverExhausted ==
    /\ ~panicked
    /\ LiveCount <= POOL_CAPACITY
    /\ Len(pool) + LiveCount = POOL_CAPACITY
    /\ rx_pc = "alloc" => pool # <<>>

\* a second frame was allocated for after an unconsumed frame was discarded:
\* all three slots are in use
C1_Witness ==
    /\ rx_pc = "swap"
    /\ future_image # None
    /\ discarded # {}
    /\ pool = <<>>

\* C2: current_image is replaced only in a display invocation that has just
\* sent row 7, a frame is not modified while it is the current one, and the
\* rows sent in one refresh cycle all come from the same frame.
C2_SwapAtFrameBoundary ==
    [][/\ current_image' # current_image =>
              /\ disp_pc = "swap"
              /\ Len(cycle) = 8
              /\ next_line = 0
       /\ current_image' = current_image =>
              image'[current_image] = image[current_image]
       /\ \A i \in 1 .. Len(cycle') : cycle'[i] = cycle'[1]]_vars

\* receive_byte has just published a frame while display is in the middle
\* of a refresh cycle of a frame received earlier
C2_Witness ==
    /\ rx_pc = "reset"
    /\ next_image # None
    /\ next_line = 4
    /\ Len(cycle) = 4
    /\ shown # <<>>
    /\ cycle[1] = <<current_image, shown[Len(shown)]>>

\* C3: while the parser is Idle a non-0xFF byte changes nothing: position,
\* begin, rx_image, next_image and the pool are unchanged and no publication
\* is started.
C3_IdleBytesChangeNothing ==
    [][(~begin /\ Len(payload') = Len(payload) + 1) =>
           /\ next_pos' = next_pos
           /\ begin' = begin
           /\ rx_image' = rx_image
           /\ image' = image
           /\ next_image' = next_image
           /\ pool' = pool
           /\ rx_pc' = "idle"]_vars

\* C4: after a marker the k-th payload byte is stored at offset k of the
\* frame being assembled, and is there in the published frame.
C4_PayloadByteAtOffset ==
    /\ (begin /\ rx_pc = "idle") =>
           \A k \in 0 .. Len(payload) - 1 :
               image[rx_image][k] = payload[k + 1]
    /\ (begin /\ rx_pc = "reset") =>
           \A k \in 0 .. Len(payload) - 1 :
               k \in Offsets /\ image[next_image][k] = payload[k + 1]

\* C5: a frame is published only when 192 payload bytes were received and
\* written since the most recent marker.
C5_PublishAfterFullFrame ==
    rx_pc \in {"lock", "alloc", "swap", "reset"} =>
        /\ begin
        /\ Len(payload) = SIZE

\* C6: from Idle, 0xFF then 191 non-0xFF bytes publish exactly one frame, no
\* frame before the 191st byte, the frame is FrameOf the 191 bytes, and one
\* more non-0xFF byte changes neither the count nor the frame.
C6_OneFrameFrom191Bytes ==
    mark = "idle" /\ rx_pc = "idle" =>
        /\ Len(payload) < SIZE - 1 => pubs = 0
        /\ Len(payload) \in {SIZE - 1, SIZE} =>
               /\ pubs = 1
               /\ image[pub_slot] = FrameOf(SubSeq(payload, 1, SIZE - 1))

\* 0xFF, 191 bytes of a ramp and one more byte were received from Idle
C6_Witness ==
    /\ mark = "idle"
    /\ rx_pc = "idle"
    /\ Len(payload) = SIZE
    /\ tx_pattern # 0
    /\ pubs = 1

\* C7: after any marker, also one that interrupts a partly collected frame,
\* the bytes still needed are the SIZE - 1 needed after a marker received in
\* Idle minus those received since; the frame published after a marker that
\* interrupted a frame holds only bytes received after that marker.
C7_MarkerRestartsFrame ==
    /\ (begin /\ rx_pc = "idle") =>
           /\ mark \in {"idle", "again", "mid"}
           /\ SIZE - next_pos = (SIZE - 1) - Len(payload)
    /\ (mark = "mid" /\ rx_pc \in {"lock", "alloc", "swap"}) =>
           /\ Len(payload) = SIZE - 1
           /\ image[rx_image] = FrameOf(payload)
    /\ (mark = "mid" /\ rx_pc = "reset") =>
           /\ Len(payload) = SIZE - 1
           /\ pubs = 1
           /\ image[next_image] = FrameOf(payload)

\* the frame started by a marker that interrupted a partly collected frame
\* has just been published
C7_Witness ==
    /\ mark = "mid"
    /\ rx_pc = "reset"
    /\ tx_pattern # 0

C9_LatestFrameWins ==
    /\ next_image # None => frame_id[next_image] = completed
    /\ disp_pc = "swap" => frame_id[contain_image] = completed
    /\ \A i \in 1 .. Len(shown) - 1 : shown[i] < shown[i + 1]
    /\ \A i \in 1 .. Len(shown) : shown[i] \in 1 .. completed
    /\ \A d \in discarded :
           /\ d \notin Range(shown)
           /\ d # frame_id[current_image]
           /\ contain_image # None => d # frame_id[contain_image]

\* a frame was discarded unconsumed and a newer one is shown
C9_Witness ==
    /\ shown # <<>>
    /\ frame_id[current_image] = shown[Len(shown)]
    /\ \E d \in discarded : d < shown[Len(shown)]

\* the bit send_row has to shift out n-th, n = 1 .. 192: columns 7 down to 0,
\* per column the corrected B, G, R bytes, each most significant bit first
ExpectedBit(pixels, n) ==
    LET c    == pixels[7 - ((n - 1) \div 24)]
        k    == ((n - 1) \div 8) % 3
        byte == IF k = 0 THEN GammaCorrect(c.b)
                ELSE IF k = 1 THEN GammaCorrect(c.g)
                ELSE GammaCorrect(c.r)
    IN  (byte \div (2 ^ (7 - ((n - 1) % 8)))) % 2 = 1

IsSda(e) == e[1] = "sda"

\* C10: a send_row call places exactly 192 bits on SDA, the 24 corrected
\* bytes B, G, R of columns 7 down to 0, most significant bit first, and
\* pulses SCK high then low exactly once after each bit.
C10_SendRowBits ==
    (m_pc = "idle" /\ events # <<>>) =>
        LET bits == SelectSeq(events, IsSda)
        IN  /\ Len(bits) = 8 * 24
            /\ \A n \in 1 .. Len(bits) :
                   bits[n][2] = ExpectedBit(m_pixels, n)
            /\ \A j \in 1 .. Len(events) :
                   /\ IsSda(events[j]) =>
                          /\ j + 2 <= Len(events)
                          /\ events[j + 1] = <<"sck", TRUE>>
                          /\ events[j + 2] = <<"sck", FALSE>>
                   /\ events[j] = <<"sck", TRUE>> =>
                          j > 1 /\ IsSda(events[j - 1])
                   /\ events[j] = <<"sck", FALSE>> =>
                          j > 1 /\ events[j - 1] = <<"sck", TRUE>>

\* send_row(1, TestRow(1)) has returned
C10_Witness ==
    /\ m_pc = "idle"
    /\ events # <<>>
    /\ m_row = 1
    /\ m_pixels = TestRow(1)

(***************************************************************************)
(* Ownership of the three pool slots.                                      *)
(***************************************************************************)
\* the handles in existence: the free list, the two locals, the shared slot
\* and the locals of the critical sections
Handles ==
    pool \o <<current_image, rx_image, next_image, contain_image,
              future_image>>

Holders(s) == Cardinality({i \in DOMAIN Handles : Handles[i] = s})

\* the slots whose frame is published or on display
Frozen == {current_image, next_image, contain_image} \ {None}

\* C11: every slot has exactly one handle, which is the free list,
\* current_image, rx_image or next_image whenever no critical section is
\* executing (inside one it may be the section's local); the slot receive_byte
\* writes into is neither the displayed nor the published one, and no step
\* changes the content of a displayed or published slot.
C11_SingleOwnership ==
    /\ [](/\ \A s \in Slots : Holders(s) = 1
          /\ lock = "none" => contain_image = None /\ future_image = None
          /\ rx_image \notin Frozen)
    /\ [][\A s \in Frozen : image'[s] = image[s]]_vars

\* a received frame is on display, the next one is published and a third is
\* being collected
C11_Witness ==
    /\ ~panicked
    /\ shown # <<>>
    /\ next_image # None
    /\ frame_id[current_image] # 0 /\ frame_id[next_image] # 0
    /\ next_pos > 1 /\ begin
    /\ pool = <<>>

(***************************************************************************)
(* The two critical sections.                                              *)
(***************************************************************************)
\* receive_byte is inside the closure of main.rs:199-211, display inside the
\* closure of main.rs:155-161 with a frame taken
RxInSection == rx_pc \in {"alloc", "swap", "reset"}

DispInSection == disp_pc = "swap"

\* C12: next_image and the pool change only in a step that holds the lock
\* before or after it; the two tasks are never inside their critical sections
\* together, display takes no step at all while receive_byte is inside its
\* section and receive_byte takes none while display is inside its own.
C12_SectionsExclude ==
    /\ [](~(RxInSection /\ DispInSection))
    /\ [][/\ (next_image' # next_image \/ pool' # pool)
               => (lock # "none" \/ lock' # "none")
          /\ RxInSection => UNCHANGED <<disp_pc, next_line, current_image>>
          /\ DispInSection
               => UNCHANGED <<rx_pc, next_pos, payload, rx_image, image>>]_vars

\* display is inside its section, having preempted a receive_byte invocation
\* that completed a frame and stands in front of its own lock
C12_Witness ==
    /\ ~panicked
    /\ DispInSection
    /\ lock = "display"
    /\ rx_pc = "lock"
    /\ running = <<"receive_byte", "display">>

(***************************************************************************)
(* The construction of the driver.                                         *)
(***************************************************************************)
Configured == m_pc \notin {"config"}

DelayRunning == m_pc = "delay"

\* C13: when the pins are configured SB and LAT are high and SCK, SDA, the
\* row-select lines and RST are low; RST has been low before the delay is
\* over, and it is not high before the delay is over.
C13_ResetPulse ==
    /\ Configured /\ elapsed = 0 =>
          /\ sb /\ lat
          /\ ~sck /\ ~sda /\ ~rst
          /\ \A r \in 0 .. 7 : ~rowsel[r]
    /\ m_pc = "rst_high" =>
          \E j \in DOMAIN events : events[j][1] = "rst" /\ ~events[j][2]
    /\ (DelayRunning /\ "rst" \in outputs) => ~rst

\* the pins at the return of Matrix::new are those the tasks start from
NewEndsInInit ==
    m_pc = "idle" =>
        /\ sb /\ lat /\ rst /\ ~sck /\ sda
        /\ \A r \in 0 .. 7 : ~rowsel[r]
        /\ outputs = AllPins /\ elapsed = DELAY_MS /\ m_n = BANK_BITS

(***************************************************************************)
(* Allocation.                                                             *)
(***************************************************************************)
\* C14: the buffer receive_byte has just allocated is all zero, also when its
\* slot held a frame before, and so is rx_image as long as no byte of a new
\* frame has been collected into it; the step that allocates leaves the slot
\* at the default image.
C14_AllocatedIsBlack ==
    /\ [](/\ future_image # None => image[future_image] = ImageDefault
          /\ rx_pc = "reset" => image[rx_image] = ImageDefault
          /\ next_pos = 0 => image[rx_image] = ImageDefault)
    /\ [][future_image' \notin {None, future_image}
            => image'[future_image'] = ImageDefault]_vars

\* the slot just allocated held a frame with lit pixels that was published
\* and then released
C14_Witness ==
    /\ ~panicked
    /\ rx_pc = "swap"
    /\ recycled
    /\ future_image = pub_slot
    /\ image[future_image] = ImageDefault

(***************************************************************************)
(* Image::gradient.                                                        *)
(***************************************************************************)
Cells == (0 .. 7) \X (0 .. 7)

GradAt(cell) == grad[8 * cell[1] + cell[2]]

\* C15: the gradient of c has pixel (0,0) equal to c, every channel of pixel
\* (row, col) is the channel of c divided by 1 + row * row + col with the
\* fraction dropped, and a pixel with a larger row * row + col has no channel
\* above the same channel of a pixel with a smaller one.
C15_Gradient ==
    g_pc = "done" =>
        /\ GradAt(<<0, 0>>) = g_color
        /\ \A p \in Cells :
               LET d == 1 + p[1] * p[1] + p[2]
               IN  GradAt(p) = [r |-> g_color.r \div d,
                                g |-> g_color.g \div d,
                                b |-> g_color.b \div d]
        /\ \A p, q \in Cells :
               p[1] * p[1] + p[2] <= q[1] * q[1] + q[2] =>
                   /\ GradAt(q).r <= GradAt(p).r
                   /\ GradAt(q).g <= GradAt(p).g
                   /\ GradAt(q).b <= GradAt(p).b

\* the gradient of a colour with three different lit channels is complete
C15_Witness ==
    /\ g_pc = "done"
    /\ g_color = [r |-> 200, g |-> 29, b |-> 114]
    /\ GradAt(<<0, 1>>) = [r |-> 100, g |-> 14, b |-> 57]
    /\ GradAt(<<7, 7>>) = [r |-> 3, g |-> 0, b |-> 2]

(***************************************************************************)
(* The virtual machine.                                                    *)
(***************************************************************************)
Succeeded(res) == res \in {"Ok(true)", "Ok(false)"}

\* C16: at the match of step_on the opcode is the byte at the IP the step
\* started with and IP is already that address plus 4 for opcodes 1, 4, 5,
\* 3 for 2, 3, 2 for 6, 8 and 1 for 7, nothing else having changed; a step
\* that succeeds returns true for opcode 7 and false for any other, an exit
\* always succeeds, and run_on returns Ok exactly after the first step that
\* returned true, all steps before it having returned false.
C16_StepOn ==
    /\ [](/\ vm_pc = "exec" =>
                /\ vm_opcode = vm_memory[vm_ip0]
                /\ vm_opcode \in {1, 4, 5} => vm_regs[0] = U32(vm_ip0 + 4)
                /\ vm_opcode \in {2, 3} => vm_regs[0] = U32(vm_ip0 + 3)
                /\ vm_opcode \in {6, 8} => vm_regs[0] = U32(vm_ip0 + 2)
                /\ vm_opcode = 7 => vm_regs[0] = U32(vm_ip0 + 1)
          /\ (vm_pc = "check" /\ Succeeded(vm_result)) =>
                (vm_result = "Ok(true)" <=> vm_opcode = 7)
          /\ \A j \in 1 .. Len(vm_results) - 1 : vm_results[j] = "Ok(false)"
          /\ vm_run = "Ok(())" <=>
                (vm_pc = "done" /\ vm_results[Len(vm_results)] = "Ok(true)"))
    /\ [][/\ (vm_pc = "step" /\ vm_pc' = "exec") =>
                /\ vm_ip0' = vm_regs[0].lo
                /\ vm_memory' = vm_memory
                /\ \A r \in 1 .. NREGS - 1 : vm_regs'[r] = vm_regs[r]
          /\ (vm_pc = "exec" /\ vm_opcode = 7) => vm_result' = "Ok(true)"
          /\ vm_result = "Ok(true)" => vm_pc' = "done"]_vars

\* load_imm r1, 5 then exit have run: two steps, the second returned true,
\* and IP is past the exit
C16_Witness ==
    /\ vm_pc = "done"
    /\ vm_run = "Ok(())"
    /\ vm_results = <<"Ok(false)", "Ok(true)">>
    /\ vm_regs[1] = U32(5)
    /\ vm_regs[0] = U32(5)

\* a taken jump: move r0, r3 has put IP back to 0 after the decode had
\* advanced it
JumpTaken ==
    /\ vm_pc = "check"
    /\ vm_opcode = 1
    /\ vm_ip0 = 4
    /\ vm_regs[0] = Zero32

(***************************************************************************)
(* The hand-off seen from display.                                         *)
(***************************************************************************)
\* display invocations up to and including the one that reaches the next
\* row-7 boundary
Remaining == LAST_ROW + 1 - next_line

\* the step is the start of a display invocation
DispInvoked == disp_pc = "wait" /\ cycle' # cycle

\* C17: a waiting display invocation is at most 8 invocations away from the
\* boundary; every invocation before row 7 brings the boundary one invocation
\* nearer and leaves next_image alone; the invocation of row 7 goes on to the
\* take before anything else runs; the take consumes next_image when it is
\* Some and leaves current_image and the pool unchanged when it is None; the
\* swap makes the taken frame current_image with next_image None and the old
\* current buffer back in the pool, 8 invocations before the next boundary.
C17_BoundedHandOff ==
    /\ [](disp_pc = "wait" => Remaining \in 1 .. 8)
    /\ [][/\ (DispInvoked /\ next_line < LAST_ROW) =>
                /\ disp_pc' = "wait"
                /\ Remaining' = Remaining - 1
                /\ UNCHANGED <<next_image, current_image, pool>>
          /\ (DispInvoked /\ next_line = LAST_ROW) =>
                /\ disp_pc' = "lock"
                /\ UNCHANGED <<next_image, current_image, pool>>
          /\ disp_pc \in {"lock", "swap"} =>
                /\ disp_pc' # disp_pc
                /\ UNCHANGED <<rx_pc, next_pos, rx_image, image>>
          /\ (disp_pc = "lock" /\ next_image # None) =>
                /\ disp_pc' = "swap"
                /\ contain_image' = next_image
                /\ next_image' = None
          /\ (disp_pc = "lock" /\ next_image = None) =>
                /\ disp_pc' = "wait"
                /\ UNCHANGED <<next_image, current_image, pool>>
          /\ disp_pc = "swap" =>
                /\ disp_pc' = "wait"
                /\ current_image' = contain_image
                /\ next_image' = None
                /\ pool' = <<current_image>> \o pool
                /\ Remaining' = 8]_vars

\* the frame published last has just become current_image at a boundary:
\* next_image is None and the buffer the 8 rows of the cycle were sent from
\* is back in the pool
C17_Witness ==
    /\ ~panicked
    /\ disp_pc = "wait"
    /\ next_line = 0
    /\ shown # <<>>
    /\ next_image = None
    /\ current_image = pub_slot
    /\ frame_id[current_image] = completed
    /\ Len(cycle) = 8
    /\ pool # <<>>
    /\ Head(pool) = cycle[8][1]

(***************************************************************************)
(* The row-select lines and the latch in send_row.                         *)
(***************************************************************************)
\* the log entry e is the write of level to the line of row r
IsRowWrite(e, r, level) == <<<<"c", r>>, level>> = e

\* the places in the log of the call where the previous row is written low
Deasserts ==
    {j \in DOMAIN events : IsRowWrite(events[j], PreviousRow(m_row), FALSE)}

\* bits placed on SDA before, after place j of the log
BitsBefore(j) == Len(SelectSeq(SubSeq(events, 1, j - 1), IsSda))

BitsAfter(j) == Len(SelectSeq(SubSeq(events, j + 1, Len(events)), IsSda))

SendRowDone == m_pc = "idle" /\ events # <<>>

\* C18 as stated: one deassertion per call, right after the blue byte of the
\* 6th-from-last column (the 7th byte sent), three columns (72 bits) before
\* the end of the row
C18_ThreeColumnsBeforeEnd ==
    SendRowDone =>
        /\ Cardinality(Deasserts) = 1
        /\ \A j \in Deasserts :
               /\ BitsBefore(j) = 8 * 7
               /\ BitsAfter(j) = 8 * 3 * 3

\* C18 amended: the previous row is written low exactly once per call, when
\* the blue byte of column 5 (the third column sent, the 6th from the last)
\* is out and its green byte is not begun: 7 bytes have been sent and 17
\* bytes, 2 of column 5 and the 5 columns 4..0, are still to come; no other
\* row line is written low.
C18_DeassertAfterThirdBlue ==
    /\ m_pc = "prev_low" => m_i = 5 /\ m_ch = 1 /\ m_bit = FirstBit
    /\ SendRowDone =>
          /\ Cardinality(Deasserts) = 1
          /\ \A j \in Deasserts :
                 /\ BitsBefore(j) = 8 * 7
                 /\ BitsAfter(j) = 8 * 17
                 /\ <<"sck", FALSE>> = events[j - 1]
                 /\ IsSda(events[j + 1])
          /\ \A j \in DOMAIN events, r \in 0 .. 7 :
                 IsRowWrite(events[j], r, FALSE) => r = PreviousRow(m_row)

\* send_row(1, ..) has returned: row 0, lit by the call before, is off
C18_Witness ==
    /\ SendRowDone
    /\ m_row = 1
    /\ ~rowsel[0]
    /\ rowsel[1]
    /\ Cardinality(Deasserts) = 1

\* the places in the log of the call where the row of the call is written
\* high, where LAT is written
Asserts == {j \in DOMAIN events : IsRowWrite(events[j], m_row, TRUE)}

LatWrites == {j \in DOMAIN events : events[j][1] = "lat"}

\* C19: the line of the new row is written high once, after all 192 bits and
\* their clock pulses; one latch pulse follows, LAT low then high, and ends
\* the call; LAT is not written and stays high while bits are shifted; at the
\* return LAT is high and SCK is low.
C19_RowThenLatch ==
    /\ m_pc \in {"sda", "sck_high", "sck_low", "prev_low", "row_high"} =>
          lat /\ LatWrites = {}
    /\ m_pc \in {"row_high", "lat_low", "lat_high"} =>
          Len(SelectSeq(events, IsSda)) = 8 * 24 /\ ~sck
    /\ SendRowDone =>
          /\ lat /\ ~sck
          /\ Cardinality(Asserts) = 1
          /\ \A j \in Asserts :
                 /\ BitsBefore(j) = 8 * 24
                 /\ <<"sck", FALSE>> = events[j - 1]
                 /\ j + 2 = Len(events)
                 /\ <<"lat", FALSE>> = events[j + 1]
                 /\ <<"lat", TRUE>> = events[j + 2]
          /\ Cardinality(LatWrites) = 2
          /\ \A j \in DOMAIN events, r \in 0 .. 7 :
                 IsRowWrite(events[j], r, TRUE) => r = m_row

\* send_row(0, ..) has returned with row 0 lit, latched
C19_Witness ==
    /\ SendRowDone
    /\ m_row = 0
    /\ rowsel[0]
    /\ lat /\ ~sck
    /\ Cardinality(LatWrites) = 2

(***************************************************************************)
(* init_bank0.                                                             *)
(***************************************************************************)
InBank ==
    m_pc \in {"bank_sda", "bank_sck_high", "bank_sck_low", "bank_lat_low",
              "bank_lat_high", "bank_sb_high"}

BankDone == m_pc = "idle" /\ outputs = AllPins /\ events # <<>>

\* C20: init_bank0 writes SB low, then 144 times SDA high followed by one
\* SCK pulse, then one LAT pulse low then high, then SB high, and nothing
\* else; SB is low and SDA is high whenever SCK is high and while LAT is low;
\* at the return SB and LAT are high and SCK is low.
C20_InitBank0 ==
    /\ InBank => ~sb
    /\ (InBank /\ sck) => sda /\ lat
    /\ (InBank /\ ~lat) => ~sck /\ m_n = 144
    /\ BankDone =>
          /\ sb /\ lat /\ ~sck
          /\ Len(events) = 1 + 3 * 144 + 3
          /\ <<"sb", FALSE>> = events[1]
          /\ \A k \in 0 .. 143 :
                 /\ <<"sda", TRUE>> = events[3 * k + 2]
                 /\ <<"sck", TRUE>> = events[3 * k + 3]
                 /\ <<"sck", FALSE>> = events[3 * k + 4]
          /\ <<"lat", FALSE>> = events[3 * 144 + 2]
          /\ <<"lat", TRUE>> = events[3 * 144 + 3]
          /\ <<"sb", TRUE>> = events[3 * 144 + 4]

\* init_bank0 has returned after its 144 iterations
C20_Witness ==
    /\ BankDone
    /\ m_n = BANK_BITS
    /\ elapsed = DELAY_MS
    /\ sb /\ sda
    /\ Len(SelectSeq(events, IsSda)) = 144

(***************************************************************************)
(* The period of display.                                                  *)
(***************************************************************************)
\* display invocations scheduled or started and not yet returned
Pending == Len(timerq) + (IF d_pc \in {"body", "spawn"} THEN 1 ELSE 0)

\* C21: the n-th invocation (n from 0) renders row n mod 8 and was scheduled
\* at the start instant plus n periods, however late it started and however
\* long the ones before took; exactly one invocation is scheduled or running
\* at any time; every invocation renders its row of current_image, and one
\* row only, and schedules one successor a period after its own instant.
C21_OneRowPerPeriod ==
    /\ [](/\ Pending = 1
          /\ ~panicked
          /\ \A k \in 1 .. Len(d_log) :
                 d_log[k] = <<(k - 1) % 8, d_start + (k - 1) * 166666>>
          /\ d_pc = "idle" => timerq = <<d_start + Len(d_log) * 166666>>)
    /\ [][/\ d_pc = "body" /\ d_pc' # "body" =>
                /\ rowsel'[d_log[Len(d_log)][1]]
                /\ \A r \in 0 .. 7 :
                       r # d_log[Len(d_log)][1] => ~rowsel'[r]
                /\ sda' = SendRowSda(ImageRow(image[current_image],
                                              d_log[Len(d_log)][1]))
                /\ d_pc' = "spawn"
          /\ d_pc = "spawn" /\ d_pc' # "spawn" =>
                /\ timerq' = <<d_at + 166666>>
                /\ d_pc' = "idle"]_vars

\* the ninth invocation has started late, more than a period after its
\* instant, and renders row 0 again
C21_Witness ==
    /\ d_pc = "body"
    /\ Len(d_log) = 9
    /\ next_line = 0
    /\ d_at = d_start + 8 * Period
    /\ now > d_at + Period
    /\ d_start = 1000

(***************************************************************************)
(* The marker is no data.                                                  *)
(***************************************************************************)
\* the frames the tasks hold: the one being filled, the published one, the
\* displayed one
Frames == {rx_image, current_image} \cup
          (IF next_image # None THEN {next_image} ELSE {})

\* C22: whatever the stream, no byte of rx_image, of a published next_image
\* or of current_image is 0xFF, and a handler invocation that reads 0xFF
\* writes no image.
C22_MarkerNeverStored ==
    /\ [](\A s \in Frames : \A i \in Offsets : image[s][i] # 255)
    /\ [][tx_frame' # tx_frame => image' = image]_vars

\* a marker has interrupted a frame, and the published frame holds the
\* largest data byte, 0xFE
C22_Witness ==
    /\ mark = "mid"
    /\ next_image # None
    /\ \E i \in Offsets : image[next_image][i] = 254

(***************************************************************************)
(* The position of receive_byte.                                           *)
(***************************************************************************)
\* an invocation of receive_byte is entered with a data byte and begin set:
\* the step that executes rx_image.as_mut()[*next_position] = b
RxWrites == rx_pc = "idle" /\ begin /\ Len(payload') = Len(payload) + 1

\* C23: whatever the stream, next_pos is in 0..191 whenever receive_byte is
\* entered, every indexed write is at an offset in 0..191 of rx_image and
\* does not panic, and the invocation that publishes a frame returns with
\* next_pos 0 and begin false.
C23_PositionInBounds ==
    /\ [](~panicked /\ (rx_pc = "idle" => next_pos \in 0 .. 191))
    /\ [][/\ RxWrites =>
                /\ next_pos \in 0 .. 191
                /\ ~panicked'
                /\ image' = [image EXCEPT ![rx_image][next_pos] =
                                              payload'[Len(payload')]]
          /\ pubs' # pubs /\ pubs' # 0 => rx_pc' = "reset"
          /\ rx_pc = "reset" /\ rx_pc' # "reset" =>
                rx_pc' = "idle" /\ next_pos' = 0 /\ ~begin']_vars

\* a frame whose last write was at offset 191 has been published and the
\* handler has returned
C23_Witness ==
    /\ rx_pc = "idle"
    /\ pubs = 1
    /\ next_image # None
    /\ image[next_image][191] # 0
    /\ next_pos = 0
    /\ ~begin

(***************************************************************************)
(* Row multiplexing.                                                       *)
(***************************************************************************)
RowsHigh == {r \in 0 .. 7 : rowsel[r]}

\* C24: with send_row called for rows 0,1,..,7,0,.. from all row lines low,
\* at most one row line is high at any instant, a row line goes high only
\* while all are low, and when a call has returned exactly the line of the
\* row it sent is high.
C24_OneRowSelected ==
    /\ [](/\ Cardinality(RowsHigh) <= 1
          /\ SendRowDone => RowsHigh = {m_row})
    /\ [][\A r \in 0 .. 7 : ~rowsel[r] /\ rowsel'[r] =>
              RowsHigh = {} /\ r = m_row /\ m_pc = "row_high"]_vars

\* row 0 is being sent after row 7, whose line is still high and about to
\* be driven low
C24_Witness ==
    /\ m_pc = "prev_low"
    /\ m_row = 0
    /\ RowsHigh = {7}

(***************************************************************************)
(* step_on does not panic.                                                 *)
(***************************************************************************)
Errors == {"Err(MemoryOutOfBoundsStepOn)", "Err(OutOfBounds)",
           "Err(RegisterOutOfBounds)", "Err(MemoryOutOfBoundsStore)",
           "Err(MemoryOutOfBoundsLoad)", "Err(WrongInstruction)",
           "Err(IoError)"}

\* the operand bytes the instruction of the opcode uses as registers
RegOperands(opcode) ==
    IF opcode \in {1, 5} THEN {vm_b[1], vm_b[2], vm_b[3]}
    ELSE IF opcode \in {2, 3} THEN {vm_b[1], vm_b[2]}
    ELSE IF opcode \in {4, 6, 8} THEN {vm_b[1]}
    ELSE {}

\* the register store and load take the address from
AddressReg == IF vm_opcode = 2 THEN vm_b[1] ELSE vm_b[2]

\* C25: from any register and memory contents step_on returns Ok or Err and
\* never panics; every index it uses on the memory is in 0..4095 and every
\* index it uses on the registers in 0..15; an operand of 16 or more yields
\* an error with no register touched; store and load touch the four bytes
\* from regs[x] when regs[x] <= 4092 and return an error without touching
\* the memory otherwise.
C25_StepOnNeverPanics ==
    /\ [](/\ vm_result # "panic"
          /\ vm_touch.mem \subseteq 0 .. 4095
          /\ vm_touch.reg \subseteq 0 .. 15
          /\ vm_pc = "check" =>
                vm_result \in {"Ok(true)", "Ok(false)"} \cup Errors)
    /\ [][vm_pc = "exec" =>
            /\ (\E i \in RegOperands(vm_opcode) : i >= 16) =>
                  vm_result' \in Errors /\ vm_touch' = vm_touch
            /\ vm_opcode \in {2, 3} /\ vm_b[1] < 16 /\ vm_b[2] < 16 =>
                  LET x == vm_regs[AddressReg]
                  IN  IF x.hi = 0 /\ x.lo <= 4092
                      THEN /\ vm_result' = "Ok(false)"
                           /\ vm_touch'.mem =
                                  vm_touch.mem \cup (x.lo .. x.lo + 3)
                      ELSE /\ vm_result' \in Errors
                           /\ vm_touch'.mem = vm_touch.mem
                           /\ vm_memory' = vm_memory
                           /\ vm_regs' = vm_regs]_vars

\* a store fetched from the last three bytes of the memory has written the
\* last word
C25_Witness ==
    /\ vm_pc = "check"
    /\ vm_opcode = 2
    /\ vm_ip0 = 4093
    /\ vm_result = "Ok(false)"
    /\ vm_touch.mem = 4092 .. 4095

====
